---- MODULE Spec2Model ----
(***************************************************************************)
(* kerncraft.py: the parameter sweep of run() and its pickled result       *)
(* store.  Every invocation (process) parses its arguments, loads the      *)
(* store, builds the permutations of the -D declarations, and for each     *)
(* permutation sets the kernel constants, runs every requested model,      *)
(* upserts its results and saves the store through <store>.tmp and a       *)
(* rename.  The file system is modelled with directory entries, inodes     *)
(* and per-process file offsets, so that two invocations on one store      *)
(* file can be run against each other.                                     *)
(***************************************************************************)
EXTENDS Integers, Sequences, FiniteSets, TLC

\* ------------------------------------------------------------------ bounds
MaxDecls == 2          \* -D declarations per invocation
BufSize == 16          \* tokens a buffered file holds before it flushes
MaxIno == 6            \* inodes of the modelled directory
MaxTokLen == 5         \* characters of a RANGESPEC
MaxStart == 2          \* start, stop and num of the start-stop:num declarations
MaxStop == 10
MaxNum == 4

Procs == {1, 2}
Names == {"N", "M"}
Starts == {1, 2}

\* ------------------------------------------------------- python primitives
NoneVal == -1

EmptyDict == [x \in {} |-> x]

\* d[k] = v
Put(d, k, v) == [x \in (DOMAIN d) \cup {k} |-> IF x = k THEN v ELSE d[x]]

RECURSIVE Concat(_)
Concat(seqs) == IF Len(seqs) = 0 THEN <<>> ELSE Head(seqs) \o Concat(Tail(seqs))

RECURSIVE SetToSeq(_)
SetToSeq(S) ==
    IF S = {} THEN <<>>
    ELSE LET x == CHOOSE y \in S : TRUE IN <<x>> \o SetToSeq(S \ {x})

\* the slot (hash & 7) of a string in an 8-slot CPython 2 dict or set
HashSlot(name) ==
    CASE name = "N" -> 7 [] name = "M" -> 4 [] name = "ECM" -> 2 [] name = "Roofline" -> 4

\* the order in which a CPython 2 dict with these (collision-free) string
\* keys iterates: by slot, whatever the order of insertion
RECURSIVE DictOrder(_)
DictOrder(keys) ==
    IF keys = {} THEN <<>>
    ELSE LET k == CHOOSE x \in keys : \A y \in keys : HashSlot(x) <= HashSlot(y)
         IN <<k>> \o DictOrder(keys \ {k})

\* Python's == on an int and on a [name, value] list
PyInt(v) == [type |-> "int", val |-> <<v>>]
PyList(l) == [type |-> "list", val |-> l]
PyEq(a, b) == a.type = b.type /\ a.val = b.val

\* ------------------------------------------------------------ range parser
\* AppendStringRange.__call__ on the match groups start and stop
RangeSpecs ==
    {[start |-> s, stop |-> NoneVal] : s \in {1}}
        \cup {[start |-> s, stop |-> s + 1] : s \in Starts}

RangeValues(gd) ==
    IF gd.stop = NoneVal THEN <<gd.start>>
    ELSE [i \in 1..(IF gd.stop + 1 > gd.start THEN gd.stop + 1 - gd.start ELSE 0)
             |-> gd.start + i - 1]

\* the characters of a RANGESPEC; the literal log is taken as one
DigitSeq == <<"0", "1", "2", "3", "4", "5", "6", "7", "8", "9">>
Digits == {DigitSeq[i] : i \in 1..Len(DigitSeq)}
Chars == {"0", "1", "2", "-", ":", "log", "x"}

CharAt(tok, pos) == IF pos >= 1 /\ pos <= Len(tok) THEN tok[pos] ELSE ""

\* \d+ at pos: the length of the run of digits it takes
RECURSIVE DigitRun(_, _)
DigitRun(tok, pos) ==
    IF CharAt(tok, pos) \in Digits THEN 1 + DigitRun(tok, pos + 1) ELSE 0

\* int() of a string of digits
RECURSIVE int(_)
int(str) ==
    IF Len(str) = 0 THEN 0
    ELSE 10 * int(SubSeq(str, 1, Len(str) - 1))
            + (CHOOSE d \in 0..9 : DigitSeq[d + 1] = str[Len(str)])

\* int(gd[group]) of the group that took len characters at pos, None when the
\* group did not take part in the match
Group(tok, pos, len) ==
    IF len = 0 THEN NoneVal ELSE int(SubSeq(tok, pos, pos + len - 1))

\* re.match of the pattern at the start of tok: the groups, as numbers
Match(tok) ==
    LET n1 == DigitRun(tok, 1)
        p1 == 1 + n1
        n2 == IF CharAt(tok, p1) = "-" THEN DigitRun(tok, p1 + 1) ELSE 0
        p2 == p1 + 1 + n2
        n3 == IF n2 > 0 /\ CharAt(tok, p2) = ":" THEN DigitRun(tok, p2 + 1) ELSE 0
        p3 == p2 + 1 + n3
        q3 == IF CharAt(tok, p3) = ":" /\ CharAt(tok, p3 + 1) = "log" THEN p3 + 1 ELSE p3
        log == n3 > 0 /\ CharAt(tok, q3) = "log"
        p4 == q3 + 1
        q4 == IF CharAt(tok, p4) = ":" /\ DigitRun(tok, p4 + 1) > 0 THEN p4 + 1 ELSE p4
        n4 == IF log THEN DigitRun(tok, q4) ELSE 0
    IN [matched |-> n1 > 0,
        gd |-> [start |-> Group(tok, 1, n1),
                stop |-> Group(tok, p1 + 1, n2),
                num |-> Group(tok, p2 + 1, n3),
                log |-> log,
                base |-> Group(tok, q4, n4)]]

RECURSIVE Pow(_, _)
Pow(a, b) == IF b = 0 THEN 1 ELSE a * Pow(a, b - 1)

\* space(...): what the first next() of the generator raises, "None" when it
\* gets to the loop
SpaceError(gd) ==
    LET base == IF gd.base = NoneVal THEN 10 ELSE gd.base
        LogError(x) == IF x = 0 \/ base = 0 THEN "ValueError"
                       ELSE IF base = 1 THEN "ZeroDivisionError" ELSE "None"
    IN IF gd.num < 2 THEN "AssertionError"
       ELSE IF ~gd.log THEN "None"
       ELSE IF LogError(gd.start) # "None" THEN LogError(gd.start)
       ELSE LogError(gd.stop)

\* a generator that spaces the values as with endpoint=False
SpaceYield_open(gd, i) ==
    (2 * (gd.start * gd.num + i * (gd.stop - gd.start)) + gd.num) \div (2 * gd.num)

\* space(...): the value the generator yields at step i, int(round(...))
\* with Python 2's round, halves away from zero
SpaceYield(gd, i) ==
    LET n == gd.num - 1
    IN IF gd.log
       THEN LET t == Pow(2, n) * Pow(gd.start, n - i) * Pow(gd.stop, i)
                top == IF gd.start > gd.stop THEN gd.start ELSE gd.stop
            IN CHOOSE v \in 0..top : Pow(2 * v - 1, n) <= t /\ t < Pow(2 * v + 1, n)
       ELSE (2 * (gd.start * n + i * (gd.stop - gd.start)) + n) \div (2 * n)

\* list(space(...)) when nothing is raised
SpaceValues(gd) == [k \in 1..gd.num |-> SpaceYield(gd, k - 1)]

\* values[1] after __call__: the list, or the generator space() returns,
\* which has not run yet
IsGenerator(gd) == gd.stop # NoneVal /\ gd.num # NoneVal

StringRange(name, gd) ==
    IF IsGenerator(gd) THEN <<name, <<>>, gd>> ELSE <<name, RangeValues(gd)>>

\* a [name, values] of args.define whose values are a generator
Lazy(decl) == Len(decl) = 3

\* ----------------------------------------------------------------- pickle
\* A pickle is a sequence of opcodes with their arguments: "(d" pushes an
\* empty dict, S/t/I push a string, a tuple, an int, "s" is SETITEM and "."
\* is STOP.
Tok(code, val) == <<code, val>>
DICT == <<"(d">>
SETITEM == <<"s">>
STOP == <<".">>
Garbage == << <<"?">> >>
Hole == <<"\\0">>

SaveDict(d, keycode, SaveValue(_)) ==
    LET ks == SetToSeq(DOMAIN d)
    IN <<DICT>> \o Concat([i \in 1..Len(ks) |->
            <<Tok(keycode, ks[i])>> \o SaveValue(d[ks[i]]) \o <<SETITEM>>])

SaveInt(r) == <<Tok("I", r)>>
SaveModels(d) == SaveDict(d, "S", SaveInt)
SaveKeys(d) == SaveDict(d, "t", SaveModels)

\* pickle.dump(result_storage, f): the bytes written
Pickle(rs) == SaveDict(rs, "S", SaveKeys) \o <<STOP>>

\* The unpickler's machine.  The stack holds the pushed tokens and, for a
\* dict, <<"(d", items>> with the items keyed by the key's token.
RECURSIVE Unpickler(_, _, _)
Unpickler(data, pos, stack) ==
    IF pos > Len(data) THEN [exc |-> "EOFError"]
    ELSE LET tok == data[pos]
             n == Len(stack)
         IN CASE tok[1] = "." ->
                    IF n = 0 THEN [exc |-> "IndexError"]
                    ELSE [exc |-> "None", value |-> stack[n]]
              [] tok[1] = "(d" ->
                    Unpickler(data, pos + 1, Append(stack, <<"(d", EmptyDict>>))
              [] tok[1] \in {"S", "t", "I"} ->
                    Unpickler(data, pos + 1, Append(stack, tok))
              [] tok[1] = "s" ->
                    IF n < 3 THEN [exc |-> "IndexError"]
                    ELSE IF stack[n - 2][1] # "(d" \/ stack[n - 1][1] = "(d"
                    THEN [exc |-> "TypeError"]
                    ELSE Unpickler(data, pos + 1,
                            Append(SubSeq(stack, 1, n - 3),
                                   <<"(d", Put(stack[n - 2][2], stack[n - 1], stack[n])>>))
              [] OTHER -> [exc |-> "KeyError"]

\* obj is a dict with keys of type keycode and values that are IsValue
IsDictOf(obj, keycode, IsValue(_)) ==
    /\ obj[1] = "(d"
    /\ \A k \in DOMAIN obj[2] : k[1] = keycode /\ IsValue(obj[2][k])

IsInt(obj) == obj[1] = "I"
IsModels(obj) == IsDictOf(obj, "S", IsInt)
IsKeys(obj) == IsDictOf(obj, "t", IsModels)
IsStore(obj) == IsDictOf(obj, "S", IsKeys)

\* the Python value of an unpickled object
ToDict(obj, ToValue(_)) ==
    [k \in {t[2] : t \in DOMAIN obj[2]} |->
        ToValue(obj[2][CHOOSE t \in DOMAIN obj[2] : t[2] = k])]

ToInt(obj) == obj[2]
ToModels(obj) == ToDict(obj, ToInt)
ToKeys(obj) == ToDict(obj, ToModels)
ToStore(obj) == ToDict(obj, ToKeys)

\* pickle.load(f) from the start of the file; an object that is no
\* kernel -> key -> model -> int mapping is reported as "NotAStore"
Unpickle(data) ==
    LET r == Unpickler(data, 1, <<>>)
    IN IF r.exc # "None" THEN r
       ELSE IF IsStore(r.value) THEN [exc |-> "None", value |-> ToStore(r.value)]
       ELSE [exc |-> "NotAStore"]

\* -------------------------------------------------------------- the store
\* an upsert that replaces the models stored under the key by the one model
Upsert_replace(rs, kernel_name, constants_key, model, results) ==
    LET rs1 == IF kernel_name \notin DOMAIN rs THEN Put(rs, kernel_name, EmptyDict) ELSE rs
    IN Put(rs1, kernel_name,
           Put(rs1[kernel_name], constants_key, Put(EmptyDict, model, results)))

\* an upsert that keeps the result already stored at the path
Upsert_keep(rs, kernel_name, constants_key, model, results) ==
    IF /\ kernel_name \in DOMAIN rs
       /\ constants_key \in DOMAIN rs[kernel_name]
       /\ model \in DOMAIN rs[kernel_name][constants_key]
    THEN rs
    ELSE LET rs1 == IF kernel_name \notin DOMAIN rs
                    THEN Put(rs, kernel_name, EmptyDict) ELSE rs
             old == IF constants_key \in DOMAIN rs1[kernel_name]
                    THEN rs1[kernel_name][constants_key] ELSE EmptyDict
         IN Put(rs1, kernel_name,
                Put(rs1[kernel_name], constants_key, Put(old, model, results)))

\* result_storage[kernel_name][constants_key][model_name] = model.results
Upsert(rs, kernel_name, constants_key, model, results) ==
    LET rs1 == IF kernel_name \notin DOMAIN rs THEN Put(rs, kernel_name, EmptyDict) ELSE rs
        rs2 == IF constants_key \notin DOMAIN rs1[kernel_name]
               THEN Put(rs1, kernel_name, Put(rs1[kernel_name], constants_key, EmptyDict))
               ELSE rs1
    IN Put(rs2, kernel_name,
           Put(rs2[kernel_name], constants_key,
               Put(rs2[kernel_name][constants_key], model, results)))

\* a key made of the names of the constants only
ConstantsKey_names(c) ==
    LET ks == DictOrder(DOMAIN c) IN [i \in 1..Len(ks) |-> <<ks[i], 0>>]

\* tuple(kernel._constants.items())
ConstantsKey(c) ==
    LET ks == DictOrder(DOMAIN c) IN [i \in 1..Len(ks) |-> <<ks[i], c[ks[i]]>>]

\* for k, v in define: kernel.set_constant(k, v)
RECURSIVE SetAll(_, _)
SetAll(c, define) ==
    IF Len(define) = 0 THEN c
    ELSE SetAll(Put(c, define[1][1], define[1][2]), Tail(define))

\* the payload of a model run: which invocation and which permutation made it
Results(p, i) == 100 * p + i

\* ---------------------------------------------------------- permutations
\* for v in values: if v not in define_dict[name]: append [name, v]
RECURSIVE AppendNew(_, _, _)
AppendNew(axis, name, values) ==
    IF Len(values) = 0 THEN axis
    ELSE LET v == values[1]
             present == \E i \in 1..Len(axis) : PyEq(PyList(axis[i]), PyInt(v))
         IN AppendNew(IF present THEN axis ELSE Append(axis, <<name, v>>),
                      name, Tail(values))

RECURSIVE BuildDefineDict(_, _)
BuildDefineDict(define, dd) ==
    IF Len(define) = 0 THEN dd
    ELSE LET name == define[1][1]
             values == define[1][2]
         IN BuildDefineDict(Tail(define),
                IF name \notin DOMAIN dd
                THEN Put(dd, name, [i \in 1..Len(values) |-> <<name, values[i]>>])
                ELSE Put(dd, name, AppendNew(dd[name], name, values)))

\* the pools taken in step, as zip(*pools) does
product_zip(pools) ==
    IF Len(pools) = 0 THEN <<>>
    ELSE LET n == CHOOSE m \in {Len(pools[i]) : i \in 1..Len(pools)} :
                      \A i \in 1..Len(pools) : m <= Len(pools[i])
         IN [k \in 1..n |-> [i \in 1..Len(pools) |-> pools[i][k]]]

\* itertools.product(*pools)
RECURSIVE product(_)
product(pools) ==
    IF Len(pools) = 0 THEN << <<>> >>
    ELSE LET result == product(SubSeq(pools, 1, Len(pools) - 1))
             pool == pools[Len(pools)]
             n == Len(pool)
         IN [k \in 1..(Len(result) * n) |->
                Append(result[((k - 1) \div n) + 1], pool[((k - 1) % n) + 1])]

\* define_dict.values()
DictValues(dd) == LET ks == DictOrder(DOMAIN dd) IN [i \in 1..Len(ks) |-> dd[ks[i]]]

ToSet(s) == {s[i] : i \in 1..Len(s)}

\* ------------------------------------------------------------------ state
VARIABLES
    argv,            \* the -D options of each command line, as typed
    args,            \* the parsed arguments of each invocation
    pc,              \* where each invocation stands
    exc,             \* the exception that ended it, "None" while it runs
    store_fd,        \* args.store: the inode argparse opened, 0 when closed
    result_storage,
    constants,       \* kernel._constants
    define_dict,
    define_product,
    idx,             \* the permutation of define_product being processed
    model_i,         \* the model of set(args.pmodel) being processed
    fd,              \* f: the open temporary file, inode and offset
    fs_dir,          \* directory: name -> inode, 0 when absent
    fs_data,         \* inode -> content
    trace,           \* history: the permutations applied, with their keys
    nsaves,          \* history: completed saves of each invocation
    analyses,        \* history: model.analyze() calls that returned
    mutations,       \* history: assignments into result_storage after load
    lastSaver,       \* history: the invocation whose save completed last
    calls,           \* history: the calls made on the kernel and the models
    file0            \* history: the store file when the invocations start

procVars == <<argv, args, pc, exc, store_fd, result_storage, constants, define_dict,
              define_product, idx, model_i, fd>>
fsVars == <<fs_dir, fs_data>>
histVars == <<trace, nsaves, analyses, mutations, lastSaver, calls, file0>>
vars == <<procVars, fsVars, histVars>>

StoreName == "store"
\* a save that writes the store file in place
tempname_inplace == "store"

\* tempname = args.store.name + '.tmp'
tempname == "tmp"

kernel_name == "k.c"

NoFd == [ino |-> 0, pos |-> 0]

\* the models as requested, a repeated name repeated
ModelOrder_list(p) == args[p].pmodel

\* set(args.pmodel), in the order the loop takes it
ModelOrder(p) == DictOrder(ToSet(args[p].pmodel))

\* the content of the store file, as a reader of the path sees it
StoreFile == fs_data[fs_dir[StoreName]]

\* an inode lives while a name or an open file refers to it
Live(dir, fds, sfds) ==
    {dir[n] : n \in DOMAIN dir} \cup {fds[p].ino : p \in Procs} \cup {sfds[p] : p \in Procs}

Reclaim(data, dir, fds, sfds) ==
    [i \in 1..MaxIno |-> IF i \in Live(dir, fds, sfds) THEN data[i] ELSE <<>>]

FreeIno == CHOOSE i \in 1..MaxIno : i \notin Live(fs_dir, fd, store_fd)

\* write(2) of chunk at offset pos
WriteAt(content, pos, chunk) ==
    [i \in 1..(IF Len(content) > pos + Len(chunk) THEN Len(content) ELSE pos + Len(chunk)) |->
        IF i > pos /\ i <= pos + Len(chunk) THEN chunk[i - pos]
        ELSE IF i <= Len(content) THEN content[i] ELSE Hole]

\* ----------------------------------------------------------------- inputs
PriorStore ==
    ("k.c" :> (<< <<"N", 1>> >> :> ("ECM" :> 0 @@ "Benchmark" :> 0)))
        @@ ("other.c" :> (<< <<"N", 1>> >> :> ("ECM" :> 0)))

Truncated(data) == SubSeq(data, 1, Len(data) - 1)

StoreFiles == {<<>>, Pickle(PriorStore), Truncated(Pickle(PriorStore)), Garbage}

PModels == {<<"ECM">>, <<"Roofline", "ECM", "ECM">>}

Declarations == {<<n, RangeValues(gd)>> : n \in Names, gd \in RangeSpecs}

RECURSIVE SeqsUpTo(_, _)
SeqsUpTo(S, n) ==
    IF n = 0 THEN {<<>>}
    ELSE LET shorter == SeqsUpTo(S, n - 1)
         IN shorter \cup {Append(s, x) : s \in shorter, x \in S}

Defines == SeqsUpTo(Declarations, MaxDecls)

ArgSets == [define : Defines, pmodel : PModels, store : BOOLEAN]

NoArgs == [define |-> <<>>, pmodel |-> <<"ECM">>, store |-> FALSE]

InitCommon ==
    /\ exc = [p \in Procs |-> "None"]
    /\ store_fd = [p \in Procs |-> 0]
    /\ result_storage = [p \in Procs |-> EmptyDict]
    /\ constants = [p \in Procs |-> EmptyDict]
    /\ define_dict = [p \in Procs |-> EmptyDict]
    /\ define_product = [p \in Procs |-> <<>>]
    /\ idx = [p \in Procs |-> 0]
    /\ model_i = [p \in Procs |-> 0]
    /\ fd = [p \in Procs |-> NoFd]
    /\ fs_dir = (StoreName :> 1 @@ tempname :> 0)
    /\ fs_data = [i \in 1..MaxIno |-> IF i = 1 THEN file0 ELSE <<>>]
    /\ trace = [p \in Procs |-> <<>>]
    /\ nsaves = [p \in Procs |-> 0]
    /\ analyses = [p \in Procs |-> 0]
    /\ mutations = [p \in Procs |-> 0]
    /\ lastSaver = 0
    /\ calls = [p \in Procs |-> <<>>]

\* one invocation
Init ==
    /\ argv = [p \in Procs |-> <<>>]
    /\ \E a \in ArgSets : args = [p \in Procs |-> IF p = 1 THEN a ELSE NoArgs]
    /\ file0 \in (IF args[1].store THEN StoreFiles ELSE {<<>>})
    /\ pc = [p \in Procs |-> IF p = 1 THEN "parse_args" ELSE "off"]
    /\ InitCommon

\* two invocations on the same store file
ConcArgs == [define |-> << <<"N", <<1, 2>> >> >>, pmodel |-> <<"ECM">>, store |-> TRUE]

InitConc ==
    /\ argv = [p \in Procs |-> <<>>]
    /\ args = [p \in Procs |-> ConcArgs]
    /\ file0 \in {<<>>, Pickle(PriorStore)}
    /\ pc = [p \in Procs |-> "parse_args"]
    /\ InitCommon

\* one invocation with one -D option still to be parsed
Tokens ==
    {t \in SeqsUpTo(Chars, MaxTokLen) :
        \A i \in 1..(Len(t) - 1) : ~(t[i] \in Digits /\ t[i + 1] \in Digits)}

ParseArgs0 == [define |-> <<>>, pmodel |-> <<"ECM">>, store |-> TRUE]

InitParse ==
    /\ \E t \in Tokens :
          argv = [p \in Procs |-> IF p = 1 THEN << <<"N", t>> >> ELSE <<>>]
    /\ args = [p \in Procs |-> IF p = 1 THEN ParseArgs0 ELSE NoArgs]
    /\ file0 = Pickle(PriorStore)
    /\ pc = [p \in Procs |-> IF p = 1 THEN "parse_args" ELSE "off"]
    /\ InitCommon

\* the decimal digits of n
RECURSIVE Str(_)
Str(n) ==
    IF n < 10 THEN <<DigitSeq[n + 1]>> ELSE Str(n \div 10) \o <<DigitSeq[(n % 10) + 1]>>

\* the RANGESPEC that spells start, start-stop, start-stop:num, start-stop:numlog
Spell(gd) ==
    Str(gd.start) \o
        (IF gd.stop = NoneVal THEN <<>>
         ELSE <<"-">> \o Str(gd.stop) \o
                (IF gd.num = NoneVal THEN <<>>
                 ELSE <<":">> \o Str(gd.num) \o (IF gd.log THEN <<"log">> ELSE <<>>)))

\* one invocation with a -D option of the form start, start-stop or
\* start-stop:num[log] still to be parsed
SpaceSpecs ==
    {gd \in [start : 0..MaxStart, stop : {NoneVal} \cup 0..MaxStop,
             num : {NoneVal} \cup 0..MaxNum, log : BOOLEAN, base : {NoneVal}] :
        /\ gd.stop = NoneVal => gd.num = NoneVal
        /\ gd.num = NoneVal => ~gd.log}

InitSpace ==
    /\ \E gd \in SpaceSpecs :
          argv = [p \in Procs |-> IF p = 1 THEN << <<"N", Spell(gd)>> >> ELSE <<>>]
    /\ args = [p \in Procs |-> IF p = 1 THEN ParseArgs0 ELSE NoArgs]
    /\ file0 = <<>>
    /\ pc = [p \in Procs |-> IF p = 1 THEN "parse_args" ELSE "off"]
    /\ InitCommon

\* ---------------------------------------------------------------- actions
\* a call on a collaborator, made while permutation perm is processed
Call(op, perm, name, val) == [op |-> op, perm |-> perm, name |-> name, val |-> val]

Goto(p, label) == pc' = [pc EXCEPT ![p] = label]

Raise(p, e) ==
    /\ pc' = [pc EXCEPT ![p] = "failed"]
    /\ exc' = [exc EXCEPT ![p] = e]

\* for define in define_product: the next permutation after the i-th, or the end
ForDefine(p, dp, i) ==
    IF i < Len(dp)
    THEN /\ idx' = [idx EXCEPT ![p] = i + 1]
         /\ Goto(p, "set_constant")
    ELSE /\ idx' = idx
         /\ Goto(p, "done")

\* parser.parse_args(): AppendStringRange.__call__ on the next -D option
ParseDefine(p) ==
    /\ pc[p] = "parse_args"
    /\ Len(args[p].define) < Len(argv[p])
    /\ LET values == argv[p][Len(args[p].define) + 1]
           m == Match(values[2])
       IN IF m.matched
          THEN /\ args' = [args EXCEPT ![p].define =
                              Append(@, StringRange(values[1], m.gd))]
               /\ UNCHANGED <<pc, exc>>
          ELSE /\ args' = args
               /\ Raise(p, "ArgumentError")
    /\ UNCHANGED <<argv, store_fd, result_storage, constants, define_dict,
                   define_product, idx, model_i, fd, fsVars, histVars>>

\* parser.parse_args(): argparse opens --store with mode a+b
ParseArgs(p) ==
    /\ pc[p] = "parse_args"
    /\ Len(args[p].define) >= Len(argv[p])
    /\ store_fd' = [store_fd EXCEPT ![p] = IF args[p].store THEN fs_dir[StoreName] ELSE 0]
    /\ Goto(p, "load")
    /\ UNCHANGED <<argv, args, exc, result_storage, constants, define_dict, define_product,
                   idx, model_i, fd, fsVars, histVars>>

\* a load that closes the file and keeps none of what it read
LoadStore_discard(p) ==
    /\ pc[p] = "load"
    /\ result_storage' = [result_storage EXCEPT ![p] = EmptyDict]
    /\ IF ~args[p].store \/ Unpickle(fs_data[store_fd[p]]).exc \in {"None", "EOFError"}
       THEN Goto(p, "defines") /\ exc' = exc
       ELSE Raise(p, Unpickle(fs_data[store_fd[p]]).exc)
    /\ store_fd' = [store_fd EXCEPT ![p] = 0]
    /\ fs_data' = Reclaim(fs_data, fs_dir, fd, store_fd')
    /\ UNCHANGED <<argv, args, constants, define_dict, define_product, idx, model_i, fd,
                   fs_dir, histVars>>

\* run(): try loading the results file
LoadStore(p) ==
    /\ pc[p] = "load"
    /\ IF ~args[p].store
       THEN /\ result_storage' = [result_storage EXCEPT ![p] = EmptyDict]
            /\ Goto(p, "defines")
            /\ exc' = exc
       ELSE LET r == Unpickle(fs_data[store_fd[p]])
            IN IF r.exc = "None"
               THEN /\ result_storage' = [result_storage EXCEPT ![p] = r.value]
                    /\ Goto(p, "defines")
                    /\ exc' = exc
               ELSE IF r.exc = "EOFError"
               THEN /\ result_storage' = [result_storage EXCEPT ![p] = EmptyDict]
                    /\ Goto(p, "defines")
                    /\ exc' = exc
               ELSE /\ result_storage' = [result_storage EXCEPT ![p] = EmptyDict]
                    /\ Raise(p, r.exc)
    /\ store_fd' = [store_fd EXCEPT ![p] = 0]
    /\ fs_data' = Reclaim(fs_data, fs_dir, fd, store_fd')
    /\ UNCHANGED <<argv, args, constants, define_dict, define_product, idx, model_i, fd,
                   fs_dir, histVars>>

\* the first declaration of define whose generator raises when the loop
\* starts to iterate it, 0 when there is none
FirstRaise(define) ==
    LET raising == {i \in 1..Len(define) :
                       Lazy(define[i]) /\ SpaceError(define[i][3]) # "None"}
    IN IF raising = {} THEN 0 ELSE CHOOSE i \in raising : \A j \in raising : i <= j

\* [name, values] with the values the loop gets by iterating
Iterated(decl) == IF Lazy(decl) THEN <<decl[1], SpaceValues(decl[3])>> ELSE decl

\* run(): the machine description and the kernel, then build defines
\* permutations
BuildDefines(p) ==
    /\ pc[p] = "defines"
    /\ LET k == FirstRaise(args[p].define)
           n == IF k = 0 THEN Len(args[p].define) ELSE k - 1
           dd == BuildDefineDict([i \in 1..n |-> Iterated(args[p].define[i])], EmptyDict)
           dp == product(DictValues(dd))
       IN /\ define_dict' = [define_dict EXCEPT ![p] = dd]
          /\ IF k = 0
             THEN /\ define_product' = [define_product EXCEPT ![p] = dp]
                  /\ ForDefine(p, dp, 0)
                  /\ exc' = exc
             ELSE /\ Raise(p, SpaceError(args[p].define[k][3]))
                  /\ UNCHANGED <<define_product, idx>>
    /\ calls' = [calls EXCEPT ![p] = @ \o <<Call("MachineModel", 0, "", 0),
                                             Call("Kernel", 0, "", 0)>>]
    /\ UNCHANGED <<argv, args, store_fd, result_storage, constants, model_i, fd,
                   fsVars, trace, nsaves, analyses, mutations, lastSaver, file0>>

\* a loop that applies the first pair of the permutation only
SetConstants_first_only(p) ==
    /\ pc[p] = "set_constant"
    /\ LET all == define_product[p][idx[p]]
           define == SubSeq(all, 1, IF Len(all) > 0 THEN 1 ELSE 0)
           c == SetAll(constants[p], define)
       IN /\ constants' = [constants EXCEPT ![p] = c]
          /\ trace' = [trace EXCEPT ![p] =
                          Append(@, [define |-> all, key |-> ConstantsKey(c)])]
          /\ calls' = [calls EXCEPT ![p] = @ \o [j \in 1..Len(define) |->
                          Call("set_constant", idx[p], define[j][1], define[j][2])]]
    /\ Goto(p, "process")
    /\ UNCHANGED <<argv, args, exc, store_fd, result_storage, define_dict, define_product,
                   idx, model_i, fd, fsVars, nsaves, analyses, mutations, lastSaver,
                   file0>>

\* for k, v in define: kernel.set_constant(k, v)
SetConstants(p) ==
    /\ pc[p] = "set_constant"
    /\ LET define == define_product[p][idx[p]]
           c == SetAll(constants[p], define)
       IN /\ constants' = [constants EXCEPT ![p] = c]
          /\ trace' = [trace EXCEPT ![p] =
                          Append(@, [define |-> define, key |-> ConstantsKey(c)])]
          /\ calls' = [calls EXCEPT ![p] = @ \o [j \in 1..Len(define) |->
                          Call("set_constant", idx[p], define[j][1], define[j][2])]]
    /\ Goto(p, "process")
    /\ UNCHANGED <<argv, args, exc, store_fd, result_storage, define_dict, define_product,
                   idx, model_i, fd, fsVars, nsaves, analyses, mutations, lastSaver,
                   file0>>

\* kernel.process(), then the first model of the loop
Process(p) ==
    /\ pc[p] = "process"
    /\ \/ /\ model_i' = [model_i EXCEPT ![p] = 1]
          /\ Goto(p, "analyze")
          /\ exc' = exc
       \/ /\ model_i' = model_i
          /\ Raise(p, "KernelError")
    /\ calls' = [calls EXCEPT ![p] = Append(@, Call("process", idx[p], "", 0))]
    /\ UNCHANGED <<argv, args, store_fd, result_storage, constants, define_dict,
                   define_product, idx, fd, fsVars, trace, nsaves, analyses, mutations,
                   lastSaver, file0>>

\* an analysis whose error is recorded and the sweep carried on
Analyze_continue(p) ==
    /\ pc[p] = "analyze"
    /\ Goto(p, "report")
    /\ \/ /\ exc' = exc
          /\ analyses' = [analyses EXCEPT ![p] = @ + 1]
       \/ /\ exc' = [exc EXCEPT ![p] = "ModelError"]
          /\ analyses' = analyses
    /\ calls' = [calls EXCEPT ![p] = @ \o
                    <<Call("init", idx[p], ModelOrder(p)[model_i[p]], 0),
                      Call("analyze", idx[p], ModelOrder(p)[model_i[p]], 0)>>]
    /\ UNCHANGED <<argv, args, store_fd, result_storage, constants, define_dict,
                   define_product, idx, model_i, fd, fsVars, trace, nsaves, mutations,
                   lastSaver, file0>>

\* the header, the model's constructor and model.analyze()
Analyze(p) ==
    /\ pc[p] = "analyze"
    /\ \/ /\ Goto(p, "report")
          /\ exc' = exc
          /\ analyses' = [analyses EXCEPT ![p] = @ + 1]
       \/ /\ Raise(p, "ModelError")
          /\ analyses' = analyses
    /\ calls' = [calls EXCEPT ![p] = @ \o
                    <<Call("init", idx[p], ModelOrder(p)[model_i[p]], 0),
                      Call("analyze", idx[p], ModelOrder(p)[model_i[p]], 0)>>]
    /\ UNCHANGED <<argv, args, store_fd, result_storage, constants, define_dict,
                   define_product, idx, model_i, fd, fsVars, trace, nsaves, mutations,
                   lastSaver, file0>>

\* model.report(output_file)
Report(p) ==
    /\ pc[p] = "report"
    /\ Goto(p, "upsert")
    /\ calls' = [calls EXCEPT ![p] =
                    Append(@, Call("report", idx[p], ModelOrder(p)[model_i[p]], 0))]
    /\ UNCHANGED <<argv, args, exc, store_fd, result_storage, constants, define_dict,
                   define_product, idx, model_i, fd, fsVars, trace, nsaves, analyses,
                   mutations, lastSaver, file0>>

\* a model loop that is left after its first model
AddResults_first_only(p) ==
    /\ pc[p] = "upsert"
    /\ result_storage' = [result_storage EXCEPT ![p] =
            Upsert(@, kernel_name, ConstantsKey(constants[p]),
                   ModelOrder(p)[model_i[p]], Results(p, idx[p]))]
    /\ mutations' = [mutations EXCEPT ![p] = @ + 1]
    /\ calls' = [calls EXCEPT ![p] =
                    Append(@, Call("results", idx[p], ModelOrder(p)[model_i[p]], 0))]
    /\ model_i' = model_i
    /\ IF args[p].store
       THEN Goto(p, "open_tmp") /\ idx' = idx
       ELSE ForDefine(p, define_product[p], idx[p])
    /\ UNCHANGED <<argv, args, exc, store_fd, constants, define_dict, define_product, fd,
                   fsVars, trace, nsaves, analyses, lastSaver, file0>>

\* add results to storage, then the next model, the save or the next permutation
AddResults(p) ==
    /\ pc[p] = "upsert"
    /\ result_storage' = [result_storage EXCEPT ![p] =
            Upsert(@, kernel_name, ConstantsKey(constants[p]),
                   ModelOrder(p)[model_i[p]], Results(p, idx[p]))]
    /\ mutations' = [mutations EXCEPT ![p] = @ + 1]
    /\ calls' = [calls EXCEPT ![p] =
                    Append(@, Call("results", idx[p], ModelOrder(p)[model_i[p]], 0))]
    /\ IF model_i[p] < Len(ModelOrder(p))
       THEN /\ model_i' = [model_i EXCEPT ![p] = @ + 1]
            /\ Goto(p, "analyze")
            /\ idx' = idx
       ELSE /\ model_i' = model_i
            /\ IF args[p].store
               THEN Goto(p, "open_tmp") /\ idx' = idx
               ELSE ForDefine(p, define_product[p], idx[p])
    /\ UNCHANGED <<argv, args, exc, store_fd, constants, define_dict, define_product, fd,
                   fsVars, trace, nsaves, analyses, lastSaver, file0>>

\* open(tempname, 'w+'): create the file or truncate the one that is there
OpenTmp(p) ==
    /\ pc[p] = "open_tmp"
    /\ IF fs_dir[tempname] # 0
       THEN /\ fd' = [fd EXCEPT ![p] = [ino |-> fs_dir[tempname], pos |-> 0]]
            /\ fs_dir' = fs_dir
            /\ fs_data' = [fs_data EXCEPT ![fs_dir[tempname]] = <<>>]
       ELSE /\ fd' = [fd EXCEPT ![p] = [ino |-> FreeIno, pos |-> 0]]
            /\ fs_dir' = [fs_dir EXCEPT ![tempname] = FreeIno]
            /\ fs_data' = fs_data
    /\ Goto(p, "dump")
    /\ UNCHANGED <<argv, args, exc, store_fd, result_storage, constants, define_dict,
                   define_product, idx, model_i, histVars>>

\* pickle.dump(result_storage, f): a full buffer is flushed to the file
Dump(p) ==
    /\ pc[p] = "dump"
    /\ LET data == Pickle(result_storage[p])
           pos == fd[p].pos
       IN /\ Len(data) - pos > BufSize
          /\ fs_data' = [fs_data EXCEPT ![fd[p].ino] =
                            WriteAt(@, pos, SubSeq(data, pos + 1, pos + BufSize))]
          /\ fd' = [fd EXCEPT ![p].pos = pos + BufSize]
    /\ UNCHANGED <<argv, args, pc, exc, store_fd, result_storage, constants, define_dict,
                   define_product, idx, model_i, fs_dir, histVars>>

\* the end of the with block: the rest of the buffer is flushed, f is closed
CloseTmp(p) ==
    /\ pc[p] = "dump"
    /\ LET data == Pickle(result_storage[p])
           pos == fd[p].pos
       IN /\ Len(data) - pos <= BufSize
          /\ fd' = [fd EXCEPT ![p] = NoFd]
          /\ fs_data' = Reclaim([fs_data EXCEPT ![fd[p].ino] =
                                    WriteAt(@, pos, SubSeq(data, pos + 1, Len(data)))],
                                fs_dir, fd', store_fd)
    /\ Goto(p, "move")
    /\ UNCHANGED <<argv, args, exc, store_fd, result_storage, constants, define_dict,
                   define_product, idx, model_i, fs_dir, histVars>>

\* shutil.move(tempname, args.store.name): os.rename, and when tempname is gone
\* the copy it falls back to fails
Move(p) ==
    /\ pc[p] = "move"
    /\ IF fs_dir[tempname] = 0
       THEN /\ Raise(p, "IOError")
            /\ UNCHANGED <<fsVars, idx, nsaves, lastSaver>>
       ELSE /\ fs_dir' = [fs_dir EXCEPT ![tempname] = 0, ![StoreName] = fs_dir[tempname]]
            /\ fs_data' = Reclaim(fs_data, fs_dir', fd, store_fd)
            /\ nsaves' = [nsaves EXCEPT ![p] = @ + 1]
            /\ lastSaver' = p
            /\ exc' = exc
            /\ ForDefine(p, define_product[p], idx[p])
    /\ UNCHANGED <<argv, args, store_fd, result_storage, constants, define_dict,
                   define_product, model_i, fd, trace, analyses, mutations, calls,
                   file0>>

\* the invocation is terminated from outside
Crash(p) ==
    /\ pc[p] \notin {"off", "done", "failed", "killed"}
    /\ Goto(p, "killed")
    /\ fd' = [fd EXCEPT ![p] = NoFd]
    /\ store_fd' = [store_fd EXCEPT ![p] = 0]
    /\ fs_data' = Reclaim(fs_data, fs_dir, fd', store_fd')
    /\ UNCHANGED <<argv, args, exc, result_storage, constants, define_dict, define_product,
                   idx, model_i, fs_dir, histVars>>

Step(p) ==
    \/ ParseArgs(p)
    \/ LoadStore(p)
    \/ BuildDefines(p)
    \/ SetConstants(p)
    \/ Process(p)
    \/ Analyze(p)
    \/ Report(p)
    \/ AddResults(p)
    \/ OpenTmp(p)
    \/ Dump(p)
    \/ CloseTmp(p)
    \/ Move(p)
    \/ Crash(p)

Next == Step(1)

Spec == Init /\ [][Next]_vars

NextConc == \E p \in Procs : Step(p)

SpecConc == InitConc /\ [][NextConc]_vars

NextParse == ParseDefine(1) \/ Step(1)

SpecParse == InitParse /\ [][NextParse]_vars

SpecSpace == InitSpace /\ [][NextParse]_vars

\* ------------------------------------------------------------- properties
\* a complete pickle: it loads, and it is the dump of what it loads
Complete(data) ==
    LET r == Unpickle(data) IN r.exc = "None" /\ data = Pickle(r.value)

HasPath(rs, kn, key, m) ==
    /\ kn \in DOMAIN rs
    /\ key \in DOMAIN rs[kn]
    /\ m \in DOMAIN rs[kn][key]

\* C1: with persistence enabled the content of the store file changes only in
\* the rename that ends a save, and then to a complete pickle, the dump of the
\* in-memory store; so in every state it is the file the sweep started with or
\* such a dump, and an interruption before the rename leaves it as it was.
C1_AtomicSave ==
    /\ [](nsaves[1] = 0 => StoreFile = file0)
    /\ [][StoreFile' # StoreFile =>
            /\ pc[1] = "move"
            /\ pc'[1] \notin {"killed", "failed"}
            /\ nsaves'[1] = nsaves[1] + 1
            /\ Complete(StoreFile')
            /\ StoreFile' = Pickle(result_storage[1])]_vars

\* C1 witness: the sweep was interrupted with the temporary file partly
\* written, and the store file is the complete prior store
C1_Witness ==
    /\ pc[1] = "killed"
    /\ fs_dir[tempname] # 0
    /\ Len(fs_data[fs_dir[tempname]]) > 0
    /\ Len(fs_data[fs_dir[tempname]]) < Len(Pickle(result_storage[1]))
    /\ file0 = Pickle(PriorStore)
    /\ StoreFile = file0

\* C2: a non-empty store file that does not unpickle ends the invocation in
\* load: no permutation is applied, nothing is stored, the file is not
\* replaced.
C2_CorruptStoreIsFatal ==
    (args[1].store /\ file0 # <<>> /\ Unpickle(file0).exc # "None") =>
        /\ pc[1] \in {"parse_args", "load", "failed", "killed"}
        /\ trace[1] = <<>>
        /\ mutations[1] = 0
        /\ StoreFile = file0

RECURSIVE AppendMissing(_, _)
AppendMissing(axis, values) ==
    IF Len(values) = 0 THEN axis
    ELSE AppendMissing(IF values[1] \in ToSet(axis) THEN axis ELSE Append(axis, values[1]),
                       Tail(values))

\* the axis the declarations of name describe: the values of its first
\* declaration, then of each later one the values not yet present
RECURSIVE MergedAxis(_, _, _, _)
MergedAxis(define, name, seen, axis) ==
    IF Len(define) = 0 THEN axis
    ELSE IF define[1][1] # name THEN MergedAxis(Tail(define), name, seen, axis)
    ELSE IF ~seen THEN MergedAxis(Tail(define), name, TRUE, define[1][2])
    ELSE MergedAxis(Tail(define), name, TRUE, AppendMissing(axis, define[1][2]))

\* the names declared, in the order of their first declaration
RECURSIVE FirstDeclared(_, _)
FirstDeclared(define, acc) ==
    IF Len(define) = 0 THEN acc
    ELSE FirstDeclared(Tail(define),
            IF define[1][1] \in ToSet(acc) THEN acc ELSE Append(acc, define[1][1]))

AxisValues(axis) == [i \in 1..Len(axis) |-> axis[i][2]]

\* C3: once the axes are built, the axis of every declared name is the merge
\* of its declarations, each value once.
C3_AxisHoldsEachValueOnce ==
    idx[1] > 0 \/ pc[1] = "done" =>
        \A n \in ToSet(FirstDeclared(args[1].define, <<>>)) :
            /\ n \in DOMAIN define_dict[1]
            /\ AxisValues(define_dict[1][n]) = MergedAxis(args[1].define, n, FALSE, <<>>)

\* nested loops over the axes, the first axis outermost
RECURSIVE NestedLoops(_)
NestedLoops(axes) ==
    IF Len(axes) = 0 THEN << <<>> >>
    ELSE LET inner == NestedLoops(Tail(axes))
         IN Concat([i \in 1..Len(axes[1]) |->
                       [j \in 1..Len(inner) |-> <<axes[1][i]>> \o inner[j]]])

Applied(p) == [i \in 1..Len(trace[p]) |-> trace[p][i].define]

\* C4: a finished sweep has applied the permutations in nested-loop order over
\* the axes in the order of their first declaration, the last one fastest.
C4_DeclarationOrder ==
    pc[1] = "done" =>
        LET names == FirstDeclared(args[1].define, <<>>)
        IN Applied(1) = NestedLoops([i \in 1..Len(names) |-> define_dict[1][names[i]]])

RECURSIVE Prod(_)
Prod(ns) == IF Len(ns) = 0 THEN 1 ELSE ns[1] * Prod(Tail(ns))

\* C5: a finished sweep has applied as many permutations as the product of the
\* lengths of the axes it built, one axis for every declared name; every
\* permutation holds exactly one entry of each axis; and a sweep with nothing
\* declared applies one permutation, the empty one.
C5_PermutationCount ==
    pc[1] = "done" =>
        LET names == FirstDeclared(args[1].define, <<>>)
        IN /\ DOMAIN define_dict[1] = ToSet(names)
           /\ Len(trace[1]) =
                Prod([i \in 1..Len(names) |-> Len(define_dict[1][names[i]])])
           /\ \A i \in 1..Len(trace[1]) :
                /\ Len(trace[1][i].define) = Len(names)
                /\ \A n \in ToSet(names) :
                      \E j \in 1..Len(names) :
                          /\ trace[1][i].define[j] \in ToSet(define_dict[1][n])
                          /\ \A k \in 1..Len(names) :
                                trace[1][i].define[k][1] = n => k = j
           /\ (Len(names) = 0 => Applied(1) = << <<>> >>)

\* C5 witness: a finished sweep over two axes of two values each
C5_Witness ==
    /\ pc[1] = "done"
    /\ Len(FirstDeclared(args[1].define, <<>>)) = 2
    /\ \A n \in DOMAIN define_dict[1] : Len(define_dict[1][n]) = 2
    /\ Len(trace[1]) = 4

\* the store the file holds, empty when it does not unpickle
FileStore(data) == LET r == Unpickle(data) IN IF r.exc = "None" THEN r.value ELSE EmptyDict

Paths(rs) ==
    UNION {UNION {{<<kn, ck, m>> : m \in DOMAIN rs[kn][ck]} : ck \in DOMAIN rs[kn]} :
              kn \in DOMAIN rs}

At(rs, path) == rs[path[1]][path[2]][path[3]]

Requested(p) == ToSet(args[p].pmodel)

\* rs with result r at [kernel_name][key][m] for every m of ms
WithResults(rs, key, ms, r) ==
    [kn \in (DOMAIN rs) \cup {kernel_name} |->
        IF kn # kernel_name THEN rs[kn]
        ELSE LET keys == IF kn \in DOMAIN rs THEN rs[kn] ELSE EmptyDict
             IN [ck \in (DOMAIN keys) \cup {key} |->
                    IF ck # key THEN keys[ck]
                    ELSE LET old == IF ck \in DOMAIN keys THEN keys[ck] ELSE EmptyDict
                         IN [m \in (DOMAIN old) \cup ms |-> IF m \in ms THEN r ELSE old[m]]]]

\* the store of invocation p once its first k permutations are completed
RECURSIVE Completed(_, _)
Completed(p, k) ==
    IF k = 0 THEN FileStore(file0)
    ELSE WithResults(Completed(p, k - 1), trace[p][k].key, Requested(p), Results(p, k))

\* C6: when kernel.process() or a model's analysis raises, the invocation is
\* over: nothing of it changes any more, the saves made are those of the
\* permutations before the failing one, and the store file is the file of the
\* start or the dump of the loaded entries plus those permutations' results.
C6_FailureEndsSweep ==
    /\ [](exc[1] \in {"KernelError", "ModelError"} =>
            /\ pc[1] = "failed"
            /\ Len(trace[1]) = idx[1]
            /\ nsaves[1] = (IF args[1].store THEN idx[1] - 1 ELSE 0)
            /\ StoreFile = (IF nsaves[1] = 0 THEN file0
                            ELSE Pickle(Completed(1, idx[1] - 1))))
    /\ [][exc[1] \in {"KernelError", "ModelError"} =>
            /\ pc'[1] = pc[1]
            /\ analyses'[1] = analyses[1]
            /\ trace'[1] = trace[1]
            /\ nsaves'[1] = nsaves[1]
            /\ StoreFile' = StoreFile]_vars

\* C6 witness: the second model of the second permutation failed, after the
\* first permutation was saved onto a loaded store
C6_Witness ==
    /\ exc[1] = "ModelError"
    /\ idx[1] = 2
    /\ model_i[1] = 2
    /\ nsaves[1] = 1
    /\ file0 = Pickle(PriorStore)

\* C7: the step that completes the save of a permutation puts its results
\* into the store file, and no step, an interruption included, removes a path
\* from the store file or changes the value at a path, unless to the result the
\* sweep has upserted at that same path; all permutations before the one in
\* progress are saved.
C7_SavedResultsStay ==
    /\ [](args[1].store /\ idx[1] > 0 => nsaves[1] >= idx[1] - 1)
    /\ [][nsaves'[1] # nsaves[1] =>
            \A after \in {FileStore(StoreFile')} : \A m \in Requested(1) :
                /\ HasPath(after, kernel_name, trace[1][nsaves'[1]].key, m)
                /\ after[kernel_name][trace[1][nsaves'[1]].key][m] = Results(1, nsaves'[1])]_vars
    /\ [][StoreFile' # StoreFile =>
            \A before \in {FileStore(StoreFile)}, after \in {FileStore(StoreFile')} :
            \A paths \in {Paths(after)} :
               \A path \in Paths(before) :
                /\ path \in paths
                /\ \/ At(after, path) = At(before, path)
                   \/ /\ path \in Paths(result_storage[1])
                      /\ path[1] = kernel_name
                      /\ \E i \in 1..Len(trace[1]) :
                            /\ path[2] = trace[1][i].key
                            /\ At(after, path) = Results(1, i)]_vars

\* C7 witness: the invocation was terminated while saving its second
\* permutation; the first one and the entries of the prior store are in the file
C7_Witness ==
    /\ pc[1] = "killed"
    /\ idx[1] = 2
    /\ nsaves[1] = 1
    /\ fs_dir[tempname] # 0
    /\ file0 = Pickle(PriorStore)
    /\ HasPath(FileStore(StoreFile), "other.c", << <<"N", 1>> >>, "ECM")
    /\ HasPath(FileStore(StoreFile), kernel_name, trace[1][1].key, "ECM")

Mutated(p) == pc[p] # "load" /\ result_storage'[p] # result_storage[p]

C9_SavedOncePerPermutation ==
    /\ [](args[1].store =>
            /\ (idx[1] = 0 => nsaves[1] = 0)
            /\ (idx[1] > 0 /\ pc[1] # "done" => nsaves[1] = idx[1] - 1)
            /\ (pc[1] = "done" => nsaves[1] = Len(define_product[1]))
            /\ (pc[1] \in {"open_tmp", "dump", "move"} =>
                  /\ model_i[1] = Len(ModelOrder(1))
                  /\ \A m \in Requested(1) :
                        HasPath(result_storage[1], kernel_name, trace[1][idx[1]].key, m)))
    /\ [][StoreFile' # StoreFile \/ nsaves'[1] # nsaves[1] =>
            \A file \in {FileStore(StoreFile')} :
            \A paths \in {Paths(file)} :
               /\ StoreFile' # StoreFile
               /\ nsaves'[1] = nsaves[1] + 1
               /\ \A i \in 1..nsaves'[1] : \A m \in Requested(1) :
                     HasPath(file, kernel_name, trace[1][i].key, m)
               /\ \A i \in 1..Len(trace[1]) :
                     LET stored == {path \in paths : At(file, path) = Results(1, i)}
                     IN \/ stored = {}
                        \/ /\ i <= nsaves'[1]
                           /\ stored = {<<kernel_name, trace[1][i].key, m>> :
                                           m \in Requested(1)}]_vars

\* C9 witness: two models are requested, the first permutation is saved with
\* both, and the second is in progress with one model stored in memory
C9_Witness ==
    /\ args[1].store
    /\ Cardinality(Requested(1)) = 2
    /\ nsaves[1] = 1
    /\ idx[1] = 2
    /\ model_i[1] = 2
    /\ pc[1] = "analyze"
    /\ trace[1][1].key # trace[1][2].key
    /\ Cardinality(Paths(FileStore(StoreFile))) = 2

\* C10: when both invocations have ended, by reaching the end of their sweep
\* or by an error of their own save, the store file loads, and what it loads
\* is the store of one of the two invocations (whichever save is taken to be
\* the later one).
C10_LaterSaveWins ==
    (/\ \A p \in Procs : pc[p] \in {"done", "failed"} /\ exc[p] \in {"None", "IOError"}
     /\ lastSaver # 0) =>
        \A r \in {Unpickle(StoreFile)} :
            /\ r.exc = "None"
            /\ \E p \in Procs : r.value = result_storage[p]

\* the RANGESPEC typed for the -D option, and whether the parser let it pass
Typed == argv[1][1][2]

Rejected ==
    /\ args[1].define = <<>>
    /\ pc[1] \in {"parse_args", "failed", "killed"}
    /\ pc[1] = "failed" => exc[1] = "ArgumentError"

\* C11: a declaration start-stop with stop < start is rejected by the parser,
\* and no axis of a sweep is empty.
C11_EmptyRangeRejected ==
    /\ \A m \in {Match(Typed)} :
          (m.matched /\ m.gd.stop # NoneVal /\ m.gd.num = NoneVal
              /\ m.gd.stop < m.gd.start) => Rejected
    /\ \A n \in DOMAIN define_dict[1] : define_dict[1][n] # <<>>

\* C12: an invocation that ends on a declaration with num < 2 ends in the
\* parser, with a parse error: the store is not loaded, neither the machine
\* description nor the kernel is constructed, no permutation is applied.
C12_SmallNumRejectedAtParse ==
    \A m \in {Match(Typed)} :
        (m.matched /\ m.gd.num # NoneVal /\ m.gd.num < 2 /\ pc[1] = "failed") =>
            /\ exc[1] = "ArgumentError"
            /\ args[1].define = <<>>
            /\ result_storage[1] = EmptyDict
            /\ calls[1] = <<>>
            /\ trace[1] = <<>>

IsDigits(str) == Len(str) > 0 /\ \A i \in 1..Len(str) : str[i] \in Digits

Before(str, i) == SubSeq(str, 1, i - 1)
After(str, i) == SubSeq(str, i + 1, Len(str))

\* num[log[base]]
NumLogBase(str) ==
    \/ IsDigits(str)
    \/ \E i \in 1..Len(str) :
          /\ str[i] = "log"
          /\ IsDigits(Before(str, i))
          /\ i = Len(str) \/ IsDigits(After(str, i))

\* stop[:num[log[base]]]
StopNum(str) ==
    \/ IsDigits(str)
    \/ \E i \in 1..Len(str) :
          str[i] = ":" /\ IsDigits(Before(str, i)) /\ NumLogBase(After(str, i))

\* the sentences of start[-stop[:num[log[base]]]]
InGrammar(str) ==
    \/ IsDigits(str)
    \/ \E i \in 1..Len(str) :
          str[i] = "-" /\ IsDigits(Before(str, i)) /\ StopNum(After(str, i))

\* C13: a token that is no sentence of start[-stop[:num[log[base]]]] is
\* rejected by the parser.
C13_WholeTokenMatched ==
    ~InGrammar(Typed) => Rejected

\* C14: once the axis is built, a bare start has given [start], start-stop
\* with stop >= start has given start, start + 1, ..., stop, and
\* start-stop:num without log, with num >= 2 and stop >= start, has given num
\* values, start first and stop last, never decreasing, value i the integer
\* nearest to start + i*(stop-start)/(num-1), a half rounded up.
C14_SpacedValues ==
    (idx[1] > 0 \/ pc[1] = "done") =>
        \A gd \in SpaceSpecs : Typed = Spell(gd) =>
            \A axis \in {AxisValues(define_dict[1]["N"])} :
                /\ gd.stop = NoneVal => axis = <<gd.start>>
                /\ (gd.stop # NoneVal /\ gd.num = NoneVal /\ gd.stop >= gd.start) =>
                      /\ Len(axis) = gd.stop - gd.start + 1
                      /\ \A i \in 1..Len(axis) : axis[i] = gd.start + i - 1
                /\ (gd.num # NoneVal /\ ~gd.log /\ gd.num >= 2 /\ gd.stop >= gd.start) =>
                      /\ Len(axis) = gd.num
                      /\ axis[1] = gd.start
                      /\ axis[gd.num] = gd.stop
                      /\ \A i \in 1..(gd.num - 1) : axis[i] <= axis[i + 1]
                      /\ \A i \in 0..(gd.num - 1) :
                            LET x == gd.start * (gd.num - 1) + i * (gd.stop - gd.start)
                            IN /\ (2 * axis[i + 1] - 1) * (gd.num - 1) <= 2 * x
                               /\ 2 * x < (2 * axis[i + 1] + 1) * (gd.num - 1)

\* C14 witness: 0-10:3 has given the axis 0, 5, 10 and the sweep is finished
C14_Witness ==
    /\ pc[1] = "done"
    /\ Typed = <<"0", "-", "1", "0", ":", "3">>
    /\ AxisValues(define_dict[1]["N"]) = <<0, 5, 10>>
    /\ Len(trace[1]) = 3

\* C15: an assignment into the result store puts the result at the path of
\* the kernel, the constants and the model, creating the levels that are
\* missing; a path that was there stays one path and holds the new result;
\* every other path, and every other kernel's entries, are as before.
C15_UpsertOverwrites ==
    [][mutations'[1] # mutations[1] =>
          \A before \in {result_storage[1]}, after \in {result_storage'[1]} :
          \A path \in {<<kernel_name, ConstantsKey(constants[1]),
                         ModelOrder(1)[model_i[1]]>>} :
              /\ DOMAIN after = DOMAIN before \cup {kernel_name}
              /\ \A kn \in DOMAIN before : kn # kernel_name => after[kn] = before[kn]
              /\ HasPath(after, path[1], path[2], path[3])
              /\ At(after, path) = Results(1, idx[1])
              /\ Paths(after) = Paths(before) \cup {path}
              /\ path \in Paths(before) =>
                    Cardinality(Paths(after)) = Cardinality(Paths(before))
              /\ \A q \in Paths(before) \ {path} : At(after, q) = At(before, q)]_vars

\* C15 witness: the same path was assigned twice in one sweep, after it was
\* loaded from the prior store, and holds the result of the second assignment
C15_Witness ==
    /\ file0 = Pickle(PriorStore)
    /\ mutations[1] = 2
    /\ Len(trace[1]) = 2
    /\ trace[1][1].key = << <<"N", 1>> >>
    /\ trace[1][2].key = << <<"N", 1>> >>
    /\ result_storage[1][kernel_name][<< <<"N", 1>> >>] = ("ECM" :> 102 @@ "Benchmark" :> 0)
    /\ result_storage[1]["other.c"] = PriorStore["other.c"]

\* the positions of log that hold a call op of permutation i on name
CallsIn(log, op, i, name) ==
    {j \in 1..Len(log) : log[j].op = op /\ log[j].perm = i /\ log[j].name = name}

\* the positions a step has added to the calls of invocation 1
NewCalls == (Len(calls[1]) + 1)..Len(calls'[1])

\* C16: calls are only added; when a model is instantiated for a permutation,
\* every pair of the permutation has been applied to the kernel and, after the
\* last of them, kernel.process() has been called once for the permutation; a
\* model is analysed right after it is instantiated, reports right after its
\* analysis, and its results are read right after its report.
C16_CallOrder ==
    [][calls'[1] # calls[1] =>
          \A log \in {calls'[1]} :
              /\ SubSeq(log, 1, Len(calls[1])) = calls[1]
              /\ \A j \in NewCalls : \A c \in {log[j]} :
                    /\ c.op = "init" =>
                          \A process \in {CallsIn(log, "process", c.perm, "")} :
                              /\ \A pair \in ToSet(define_product[1][c.perm]) :
                                    \E a \in 1..(j - 1) :
                                        log[a] = Call("set_constant", c.perm, pair[1], pair[2])
                              /\ Cardinality(process) = 1
                              /\ \A b \in process : b < j
                              /\ \A a \in 1..Len(log) :
                                    (log[a].op = "set_constant" /\ log[a].perm = c.perm) =>
                                        \A b \in process : a < b
                    /\ c.op = "analyze" => j > 1 /\ log[j - 1] = Call("init", c.perm, c.name, 0)
                    /\ c.op = "report" => j > 1 /\ log[j - 1] = Call("analyze", c.perm, c.name, 0)
                    /\ c.op = "results" => j > 1 /\ log[j - 1] = Call("report", c.perm, c.name, 0)]_vars

\* C16 witness: a finished sweep of two permutations over two names with two
\* models
C16_Witness ==
    /\ pc[1] = "done"
    /\ Len(trace[1]) = 2
    /\ Len(define_product[1][1]) = 2
    /\ Cardinality(Requested(1)) = 2
    /\ Len(calls[1]) = 2 + 2 * (2 + 1 + 2 * 4)

\* permutation i is through with its models
Through(i) == i < Len(trace[1]) \/ pc[1] \in {"open_tmp", "dump", "move", "done"}

\* C17: a model that is instantiated, analysed, made to report or read for a
\* permutation is a requested one, and it is so for the first time in that
\* permutation; and when the permutation leaves its loop over the models,
\* every requested model was instantiated, analysed and read once, no other
\* analysis was made, and every requested model's result is stored under the
\* permutation's key.
C17_EachModelOnce ==
    [][calls'[1] # calls[1] =>
          \A log \in {calls'[1]} :
              /\ \A j \in NewCalls : \A c \in {log[j]} :
                    c.op \in {"init", "analyze", "report", "results"} =>
                        /\ c.perm = idx[1]
                        /\ c.name \in Requested(1)
                        /\ CallsIn(log, c.op, c.perm, c.name) = {j}
              /\ (pc[1] = "upsert" /\ pc'[1] # "analyze") =>
                    /\ \A m \in Requested(1) :
                          /\ Cardinality(CallsIn(log, "init", idx[1], m)) = 1
                          /\ Cardinality(CallsIn(log, "analyze", idx[1], m)) = 1
                          /\ Cardinality(CallsIn(log, "results", idx[1], m)) = 1
                          /\ HasPath(result_storage'[1], kernel_name,
                                     trace[1][idx[1]].key, m)
                    /\ Cardinality({j \in 1..Len(log) :
                                       log[j].op = "analyze" /\ log[j].perm = idx[1]})
                          = Cardinality(Requested(1))]_vars

\* C17 witness: ECM was requested twice and Roofline once, and a finished
\* sweep of two permutations has made four analyses
C17_Witness ==
    /\ pc[1] = "done"
    /\ args[1].pmodel = <<"Roofline", "ECM", "ECM">>
    /\ Len(trace[1]) = 2
    /\ analyses[1] = 4
    /\ trace[1][1].key # trace[1][2].key
    /\ DOMAIN result_storage[1][kernel_name][trace[1][2].key] = {"ECM", "Roofline"}

\* C18: two permutations of a sweep that differ in a value have different
\* keys, and the result stored under the key of a permutation that is through
\* with its models was made by a permutation with the same values.
C18_DistinctKeys ==
    /\ \A i, j \in 1..Len(trace[1]) :
          ToSet(trace[1][i].define) # ToSet(trace[1][j].define) =>
              trace[1][i].key # trace[1][j].key
    /\ \A i \in 1..Len(trace[1]) : \A m \in Requested(1) :
          Through(i) =>
              /\ HasPath(result_storage[1], kernel_name, trace[1][i].key, m)
              /\ \E j \in 1..Len(trace[1]) :
                    /\ ToSet(trace[1][j].define) = ToSet(trace[1][i].define)
                    /\ result_storage[1][kernel_name][trace[1][i].key][m] = Results(1, j)

\* C18 witness: a finished sweep of four permutations has stored four keys
C18_Witness ==
    /\ pc[1] = "done"
    /\ file0 = <<>>
    /\ Len(trace[1]) = 4
    /\ Cardinality({trace[1][i].key : i \in 1..4}) = 4
    /\ Cardinality(DOMAIN result_storage[1][kernel_name]) = 4
    /\ \A i \in 1..4 : result_storage[1][kernel_name][trace[1][i].key]["ECM"] = Results(1, i)

====
